---------------------------- MODULE Spec2Model ----------------------------
(***************************************************************************)
(* A model of video_to_spritesheet.py: the command-line run of main(),     *)
(* the per-video pipeline process_single_video() and the layout and        *)
(* metadata computed by create_spritesheet().                              *)
(*                                                                         *)
(* Python's float is an IEEE-754 double.  The two places where the program *)
(* scales a dimension (int(width * scale), int(original * ratio)) are      *)
(* modelled bit for bit: a double is a 53-bit significand kept as a        *)
(* sequence of bits (most significant first) and the exponent of its last  *)
(* bit, so that the value is  m * 2^e.                                     *)
(***************************************************************************)
EXTENDS Integers, Sequences, FiniteSets, TLC

(***************************************************************************)
(* Bounds of the model.                                                    *)
(***************************************************************************)
MaxFrames == 10      \* most frames ffmpeg extracts from one video
MaxDim    == 3       \* small videos are 1..MaxDim pixels on each side
MaxReq    == 4       \* largest small --width / --height request
MaxCols   == 4       \* largest --columns request
MaxFiles  == 3       \* most entries of the input directory

(***************************************************************************)
(* Optional values: Python's None is the empty tuple, a value v is <<v>>.  *)
(***************************************************************************)
None == << >>

Some(v) == <<v>>

\* Python truthiness of an optional int: None and 0 are both false.
Truthy(o) == o # None /\ o[1] # 0

Abs(x) == IF x < 0 THEN -x ELSE x

Sign(x) == IF x < 0 THEN -1 ELSE 1

(***************************************************************************)
(* IEEE-754 double arithmetic on positive values.                          *)
(***************************************************************************)
MantBits == 53

RECURSIVE Pow2(_)
Pow2(n) == IF n = 0 THEN 1 ELSE 2 * Pow2(n - 1)

\* a function over 1..n as the tuple of its values
Tuple(f, n) == SubSeq(f, 1, n)

Square(v) == v * v

RECURSIVE Pow2Mod(_, _)
\* 2^n mod b, by repeated squaring
Pow2Mod(n, b) ==
  IF n = 0 THEN 1 % b
  ELSE IF n % 2 = 1 THEN (2 * Pow2Mod(n - 1, b)) % b
  ELSE Square(Pow2Mod(n \div 2, b)) % b

RECURSIVE Normalize(_, _, _)
\* a/b = (a'/b') * 2^k with b' <= a' < 2b'
Normalize(a, b, k) ==
  IF a >= 2 * b THEN Normalize(a, 2 * b, k + 1)
  ELSE IF a < b THEN Normalize(2 * a, b, k - 1)
  ELSE <<a, b, k>>

\* what is left of a/b after n binary places: (a * 2^n) mod b
DivRem(a, b, n) == ((a % b) * Pow2Mod(n, b)) % b

\* the first n bits of a/b, where b <= a < 2b: the long division
DivBits(a, b, n) ==
  Tuple([j \in 1..n |-> IF j = 1 THEN 1 ELSE (2 * DivRem(a, b, j - 2)) \div b],
        n)

\* the last position of bits that holds a 0
LastZero(bits) ==
  CHOOSE z \in 1..Len(bits) :
    bits[z] = 0 /\ \A j \in (z + 1)..Len(bits) : bits[j] = 1

\* bits + 1, where bits are not all 1
IncBits(bits, z) ==
  Tuple([j \in 1..Len(bits) |->
           IF j < z THEN bits[j] ELSE IF j = z THEN 1 ELSE 0],
        Len(bits))

AllOnes(bits) == \A j \in 1..Len(bits) : bits[j] = 1

\* the significand m rounded up by one unit in the last place
RoundUp(m, e) ==
  IF AllOnes(m)
  THEN [m |-> Tuple([j \in 1..Len(m) |-> IF j = 1 THEN 1 ELSE 0], Len(m)),
        e |-> e + 1]
  ELSE [m |-> IncBits(m, LastZero(m)), e |-> e]

\* round to nearest, ties to even: guard is the first dropped bit, sticky
\* says whether anything lies below it
RoundNearestEven(m, e, guard, sticky) ==
  IF guard = 1 /\ (sticky \/ m[Len(m)] = 1) THEN RoundUp(m, e)
  ELSE [m |-> m, e |-> e]

\* the quotient's first 53 bits m, rounded by what is left: r of b
RoundQuotient(m, e, r, b) ==
  RoundNearestEven(m, e, IF 2 * r >= b THEN 1 ELSE 0, 2 * r # b /\ r # 0)

\* the double nearest to nz[1]/nz[2] * 2^nz[3], where nz[2] <= nz[1] < 2 nz[2]
FDivNormal(nz) ==
  RoundQuotient(DivBits(nz[1], nz[2], MantBits), nz[3] - (MantBits - 1),
                DivRem(nz[1], nz[2], MantBits - 1), nz[2])

\* the double nearest to a/b, for integers a > 0, b > 0
FDiv(a, b) == FDivNormal(Normalize(a, b, 0))

(***************************************************************************)
(* The product of an integer and a significand, in limbs of LimbBits bits  *)
(* counted from the last bit; the top limb takes the bits that remain.     *)
(***************************************************************************)
LimbBits == MantBits \div 4

\* the limbs below the top one
Limbs == (MantBits - 1) \div LimbBits

RECURSIVE BitsValue(_, _, _)
\* the integer whose binary digits are bits[lo..hi]
BitsValue(bits, lo, hi) ==
  IF hi < lo THEN 0 ELSE 2 * BitsValue(bits, lo, hi - 1) + bits[hi]

\* limb k of bits (k = 0 is the lowest); limb Limbs is the top one
Limb(bits, k) ==
  BitsValue(bits,
            IF k = Limbs THEN 1 ELSE Len(bits) - LimbBits * (k + 1) + 1,
            Len(bits) - LimbBits * k)

RECURSIVE LimbProduct(_, _, _)
\* h * limb k plus the carry of the limbs below
LimbProduct(bits, h, k) ==
  h * Limb(bits, k) +
  (IF k = 0 THEN 0 ELSE LimbProduct(bits, h, k - 1) \div Pow2(LimbBits))

RECURSIVE Binary(_)
\* t in binary, most significant bit first, no leading zero
Binary(t) == IF t = 0 THEN << >> ELSE Binary(t \div 2) \o <<t % 2>>

\* the bits of limb value v, LimbBits of them
LimbDigits(v) ==
  Tuple([j \in 1..LimbBits |-> (v \div Pow2(LimbBits - j)) % 2], LimbBits)

RECURSIVE LowBits(_, _)
\* the limbs k..1 of the product, LimbBits bits each
LowBits(products, k) ==
  IF k = 0 THEN << >>
  ELSE LimbDigits(products[k] % Pow2(LimbBits)) \o LowBits(products, k - 1)

\* the bits of the product whose limb products are given, lowest first
JoinLimbs(products) ==
  Binary(products[Limbs + 1]) \o LowBits(products, Limbs)

\* the bits of h * bits
MulBits(bits, h) ==
  JoinLimbs(Tuple([k \in 1..(Limbs + 1) |-> LimbProduct(bits, h, k - 1)],
                  Limbs + 1))

\* the exact product p * 2^e rounded to 53 bits
RoundProduct(p, e) ==
  IF Len(p) = MantBits THEN [m |-> p, e |-> e]
  ELSE RoundNearestEven(SubSeq(p, 1, MantBits), e + Len(p) - MantBits,
                        p[MantBits + 1],
                        \E j \in (MantBits + 2)..Len(p) : p[j] = 1)

\* the double nearest to h * x, for an integer h > 0 and a double x > 0
FMul(h, x) == RoundProduct(MulBits(x.m, h), x.e)

\* int(x) of a double x >= 0: the digits left of the binary point
FTrunc(x) ==
  IF x.e >= 0 THEN BitsValue(x.m, 1, Len(x.m)) * Pow2(x.e)
  ELSE IF Len(x.m) + x.e <= 0 THEN 0
  ELSE BitsValue(x.m, 1, Len(x.m) + x.e)

(***************************************************************************)
(* The scaled dimensions.                                                  *)
(***************************************************************************)
\* a variant of ScaleInt that rounds the exact value to the nearest integer
ScaleRound(original, num, den) ==
  IF num = 0 THEN 0
  ELSE Sign(num) * ((2 * original * Abs(num) + den) \div (2 * den))

\* int(original * (num / den)): the double quotient, the double product,
\* then truncation toward zero.  original > 0 and den > 0 are integers.
ScaleInt(original, num, den) ==
  IF num = 0 THEN 0
  ELSE Sign(num) * FTrunc(FMul(original, FDiv(Abs(num), den)))

\* process_single_video: the frame size handed to create_spritesheet;
\* --percent overrides --width and --height
RequestedSize(percent, width, height, info_width, info_height) ==
  IF percent # None
  THEN <<Some(ScaleInt(info_width, percent[1], 100)),
         Some(ScaleInt(info_height, percent[1], 100))>>
  ELSE <<width, height>>

\* create_spritesheet: the size of one frame on the sheet
TargetSize(original_width, original_height, frame_width, frame_height) ==
  IF Truthy(frame_width) /\ Truthy(frame_height)
  THEN <<frame_width[1], frame_height[1]>>
  ELSE IF Truthy(frame_width)
  THEN <<frame_width[1],
         ScaleInt(original_height, frame_width[1], original_width)>>
  ELSE IF Truthy(frame_height)
  THEN <<ScaleInt(original_width, frame_height[1], original_height),
         frame_height[1]>>
  ELSE <<original_width, original_height>>

(***************************************************************************)
(* The grid.                                                               *)
(***************************************************************************)
\* a variant of CeilSqrt that rounds the root down
FloorSqrt(n) == CHOOSE c \in 0..n : c * c <= n /\ (c + 1) * (c + 1) > n

\* math.ceil(math.sqrt(n)) for n >= 1
CeilSqrt(n) == CHOOSE c \in 1..n : c * c >= n /\ (c - 1) * (c - 1) < n

\* a variant of CeilDiv that rounds the quotient down
FloorDiv(n, c) == IF c > 0 THEN n \div c ELSE -((n + (-c) - 1) \div (-c))

\* math.ceil(n / c) for n >= 1 and c # 0; the quotient is negative when c is
CeilDiv(n, c) == IF c > 0 THEN (n + c - 1) \div c ELSE -(n \div (-c))

\* create_spritesheet: <<cols, rows>>; "if columns:" takes 0 as not given
Rows(num_frames, cols) == <<cols, CeilDiv(num_frames, cols)>>

Grid(num_frames, columns) ==
  Rows(num_frames,
       IF Truthy(columns) THEN columns[1] ELSE CeilSqrt(num_frames))

(***************************************************************************)
(* Pillow.                                                                 *)
(***************************************************************************)
\* Image.new raises ValueError on a negative width or height
ImageNewOk(sheet_width, sheet_height) == sheet_width >= 0 /\ sheet_height >= 0

\* Image.resize raises ValueError unless both sides are at least 1; every
\* extracted frame has a positive size, so a frame is resized whenever the
\* target is not positive
ResizeOk(target_width, target_height) ==
  target_width >= 1 /\ target_height >= 1

(***************************************************************************)
(* The frame rectangles and the metadata.                                  *)
(***************************************************************************)
\* a variant of FrameRect that fills the sheet column by column
FrameRectColumnMajor(i, cols, rows, target_width, target_height) ==
  [index |-> i,
   x |-> (i \div rows) * target_width,
   y |-> (i % rows) * target_height,
   w |-> target_width,
   h |-> target_height]

\* the metadata entry of frame i (0-based)
FrameRect(i, cols, rows, target_width, target_height) ==
  [index |-> i,
   x |-> (i % cols) * target_width,
   y |-> (i \div cols) * target_height,
   w |-> target_width,
   h |-> target_height]

\* a variant of EntryCount with an entry for every cell of the grid
CellCount(num_frames, cols, rows) == cols * rows

\* how many entries metadata["frames"] gets: one per frame composed
EntryCount(num_frames, cols, rows) == num_frames

Metadata(num_frames, cols, rows, target_width, target_height) ==
  [frames |-> [k \in 1..EntryCount(num_frames, cols, rows) |->
                 FrameRect(k - 1, cols, rows, target_width, target_height)],
   meta |-> [size |-> [w |-> cols * target_width, h |-> rows * target_height],
             frameSize |-> [w |-> target_width, h |-> target_height],
             columns |-> cols,
             rows |-> rows,
             totalFrames |-> num_frames]]

(***************************************************************************)
(* create_spritesheet.  status is "ok" (returned), "exit" (sys.exit(1)) or *)
(* "crash" (an exception nobody catches).  layout is what the function     *)
(* prints before it allocates the canvas.                                  *)
(***************************************************************************)
Sheet(status, layout, canvas, pasted, removed, metadata, saved) ==
  [status |-> status, layout |-> layout, canvas |-> canvas,
   pasted |-> pasted, removed |-> removed, metadata |-> metadata,
   saved |-> saved]

Layout(num_frames, cols, rows, target_width, target_height) ==
  [cols |-> cols, rows |-> rows,
   target_width |-> target_width, target_height |-> target_height,
   sheet_width |-> cols * target_width, sheet_height |-> rows * target_height,
   num_frames |-> num_frames]

\* from Image.new to the return
Compose(num_frames, lay, output_path, remove_bg) ==
  IF ~ImageNewOk(lay.sheet_width, lay.sheet_height)
  THEN Sheet("crash", Some(lay), None, 0, 0, None, << >>)
  ELSE IF ~ResizeOk(lay.target_width, lay.target_height)
  THEN Sheet("crash", Some(lay), Some(<<lay.sheet_width, lay.sheet_height>>),
             0, 0, None, << >>)
  ELSE Sheet("ok", Some(lay), Some(<<lay.sheet_width, lay.sheet_height>>),
             num_frames, IF remove_bg THEN num_frames ELSE 0,
             Some(Metadata(num_frames, lay.cols, lay.rows,
                           lay.target_width, lay.target_height)),
             <<output_path>>)

Plan(num_frames, size, grid, output_path, remove_bg) ==
  Compose(num_frames,
          Layout(num_frames, grid[1], grid[2], size[1], size[2]),
          output_path, remove_bg)

create_spritesheet(num_frames, original_width, original_height, output_path, frame_width, frame_height, columns, remove_bg) ==
  IF num_frames = 0
  THEN Sheet("exit", None, None, 0, 0, None, << >>)
  ELSE Plan(num_frames,
            TargetSize(original_width, original_height,
                       frame_width, frame_height),
            Grid(num_frames, columns), output_path, remove_bg)

(***************************************************************************)
(* The state of a run.                                                     *)
(***************************************************************************)
VARIABLES
  args,            \* the parsed command line
  input,           \* what args.input names: "missing", "file" or "dir"
  listing,         \* the files args.input names or holds
  ffmpeg,          \* shutil.which("ffmpeg") finds the decoder
  REMBG_AVAILABLE, \* the rembg import succeeded
  pc,              \* "start", "loop", "done", "exit" (sys.exit(1)), "crash"
  video_files,     \* main's list of videos
  i,               \* videos the loop has taken
  success_count,
  fail_count,
  assigned,        \* the output_path chosen for each video taken
  dirs,            \* directories made by mkdir
  probed,          \* indexes of the videos ffprobe was run on
  extracted,       \* indexes of the videos ffmpeg was run on
  canvases,        \* canvases allocated by Image.new
  written,         \* files written so far, in order, with who wrote them
  last             \* what the latest process_single_video call did

vars == <<args, input, listing, ffmpeg, REMBG_AVAILABLE, pc, video_files, i,
          success_count, fail_count, assigned, dirs, probed, extracted,
          canvases, written, last>>

(***************************************************************************)
(* Files and paths.  A path is its text without the suffix, and the suffix.*)
(***************************************************************************)
VIDEO_EXTENSIONS ==
  {".mp4", ".avi", ".mov", ".mkv", ".webm", ".wmv", ".flv", ".m4v",
   ".mpeg", ".mpg"}

\* str.lower() on the suffixes that occur
Lower(suffix) == IF suffix = ".MP4" THEN ".mp4" ELSE suffix

\* the file names that occur, in the order sorted() gives them
NameOrder ==
  <<"a.MP4", "a.avi", "a.txt", "b.MP4", "b.avi", "b.txt">>

FileName(f) == f.stem \o f.suffix

Rank(f) == CHOOSE k \in 1..Len(NameOrder) : NameOrder[k] = FileName(f)

RECURSIVE Sorted(_)
Sorted(S) ==
  IF S = {} THEN << >>
  ELSE LET f == CHOOSE g \in S : \A h \in S : Rank(g) <= Rank(h)
       IN  <<f>> \o Sorted(S \ {f})

\* every entry of the model's directories is a regular file
find_video_files(directory) ==
  Sorted({f \in directory : Lower(f.suffix) \in VIDEO_EXTENSIONS})

\* Path(output_path).with_suffix(".json")
JsonPath(output_path) == [output_path EXCEPT !.suffix = ".json"]

\* main: the output path of one video
OutputPath(output, video_path, num_videos) ==
  IF output # None
  THEN IF num_videos = 1
       THEN [base |-> output[1].base, suffix |-> output[1].suffix]
       ELSE IF output[1].suffix = ""
       THEN [base |-> output[1].base \o "/" \o video_path.stem
                        \o "_spritesheet",
             suffix |-> ".png"]
       ELSE [base |-> video_path.stem \o "_" \o output[1].base,
             suffix |-> output[1].suffix]
  ELSE [base |-> "in/" \o video_path.stem \o "_spritesheet",
        suffix |-> ".png"]

\* main: the directory made for one video, if any
OutputDir(output, num_videos) ==
  IF output # None /\ num_videos > 1 /\ output[1].suffix = ""
  THEN {output[1].base}
  ELSE {}

(***************************************************************************)
(* The external tools.  What ffprobe and ffmpeg do with a video is the     *)
(* environment's choice.                                                   *)
(***************************************************************************)
ProbeFailures == {"CalledProcessError", "JSONDecodeError", "no_video_stream"}

\* at most max_frames frames when --max-frames is given
FrameCap(max_frames) == IF max_frames = None THEN MaxFrames ELSE max_frames[1]

Outcomes(max_frames) ==
  [probe : ProbeFailures, extract : {"not_run"}, frames : {0}]
    \cup [probe : {"ok"}, extract : {"CalledProcessError"}, frames : {0}]
    \cup [probe : {"ok"}, extract : {"ok"}, frames : 0..FrameCap(max_frames)]

\* a variant of check_ffmpeg that lets a run without ffmpeg go on
check_ffmpeg_skipped(found) == "ok"

\* check_ffmpeg: sys.exit(1) when ffmpeg is not on the PATH
check_ffmpeg(found) == IF found THEN "ok" ELSE "exit"

\* main: --remove-bg without rembg
check_rembg(remove_bg, available) ==
  IF remove_bg /\ ~available THEN "exit" ELSE "ok"

\* each failure of the probe ends in sys.exit(1)
get_video_info(video_path, probe) ==
  IF probe = "ok"
  THEN [status |-> "ok", width |-> video_path.width,
        height |-> video_path.height]
  ELSE [status |-> "exit", width |-> 0, height |-> 0]

\* a failure of ffmpeg ends in sys.exit(1); the frames have the video's size
extract_frames(video_path, extract, frames) ==
  IF extract = "ok"
  THEN [status |-> "ok", frames |-> frames]
  ELSE [status |-> "exit", frames |-> 0]

(***************************************************************************)
(* process_single_video.  status is "True" or "False" (the value           *)
(* returned), "exit" or "crash".                                           *)
(***************************************************************************)
NoCall ==
  [status |-> "none", probed |-> FALSE, extract |-> "not_run", frames |-> 0,
   frame_width |-> None, frame_height |-> None, layout |-> None,
   canvas |-> None, pasted |-> 0, removed |-> 0, metadata |-> None,
   files |-> << >>]

\* a variant of NoFrames that hands an empty list on to create_spritesheet
NoFramesIgnored(frames) == FALSE

\* "if not frames:"
NoFrames(frames) == frames = 0

\* the call of create_spritesheet has returned cs, or has not returned
Composed(started, cs, output_path, json) ==
  [started EXCEPT
     !.status = IF cs.status = "ok" THEN "True" ELSE cs.status,
     !.layout = cs.layout,
     !.canvas = cs.canvas,
     !.pasted = cs.pasted,
     !.removed = cs.removed,
     !.metadata = cs.metadata,
     !.files = IF cs.status = "ok" /\ json
               THEN cs.saved \o <<JsonPath(output_path)>>
               ELSE cs.saved]

\* extract_frames has answered ex
Extracted(started, ex, input_path, output_path, a) ==
  IF ex.status # "ok"
  THEN [started EXCEPT !.status = "exit"]
  ELSE IF NoFrames(ex.frames)
  THEN [started EXCEPT !.status = "False"]
  ELSE Composed([started EXCEPT !.frames = ex.frames],
                create_spritesheet(ex.frames, input_path.width,
                                   input_path.height, output_path,
                                   started.frame_width, started.frame_height,
                                   a.columns, a.remove_bg),
                output_path, a.json)

\* the requested frame size is req
Scaled(req, input_path, output_path, a, outcome) ==
  Extracted([NoCall EXCEPT !.probed = TRUE,
                           !.extract = outcome.extract,
                           !.frame_width = req[1],
                           !.frame_height = req[2]],
            extract_frames(input_path, outcome.extract, outcome.frames),
            input_path, output_path, a)

\* get_video_info has answered video_info
Probed(video_info, input_path, output_path, a, outcome) ==
  IF video_info.status # "ok"
  THEN [NoCall EXCEPT !.status = "exit", !.probed = TRUE]
  ELSE Scaled(RequestedSize(a.percent, a.width, a.height,
                            video_info.width, video_info.height),
              input_path, output_path, a, outcome)

process_single_video(input_path, output_path, a, outcome) ==
  Probed(get_video_info(input_path, outcome.probe),
         input_path, output_path, a, outcome)

(***************************************************************************)
(* main.                                                                   *)
(***************************************************************************)
\* the checks of main, in its order, and the videos found
Checked(found) ==
  /\ input # "missing"
  /\ check_ffmpeg(ffmpeg) = "ok"
  /\ check_rembg(args.remove_bg, REMBG_AVAILABLE) = "ok"
  /\ found # << >>

Started(found, ok) ==
  /\ pc' = IF ok THEN "loop" ELSE "exit"
  /\ video_files' = IF ok THEN found ELSE << >>

\* from parse_args to the start of the loop
Startup ==
  /\ pc = "start"
  /\ Started(IF input = "file" THEN Sorted(listing)
             ELSE find_video_files(listing),
             Checked(IF input = "file" THEN Sorted(listing)
                     ELSE find_video_files(listing)))
  /\ UNCHANGED <<args, input, listing, ffmpeg, REMBG_AVAILABLE, i,
                 success_count, fail_count, assigned, dirs, probed,
                 extracted, canvases, written, last>>

\* what one turn of the loop leaves behind: r is what process_single_video did
Turn(output_path, r) ==
  /\ i' = i + 1
  /\ assigned' = Append(assigned, output_path)
  /\ dirs' = dirs \cup OutputDir(args.output, Len(video_files))
  /\ probed' = IF r.probed THEN probed \cup {i + 1} ELSE probed
  /\ extracted' = IF r.extract # "not_run"
                  THEN extracted \cup {i + 1} ELSE extracted
  /\ canvases' = IF r.canvas # None THEN canvases + 1 ELSE canvases
  /\ written' = written \o
                [k \in 1..Len(r.files) |-> [path |-> r.files[k], by |-> i + 1]]
  /\ last' = r
  /\ success_count' = IF r.status = "True" THEN success_count + 1
                      ELSE success_count
  /\ fail_count' = IF r.status = "False" THEN fail_count + 1
                   ELSE fail_count
  /\ pc' = IF r.status \in {"exit", "crash"} THEN r.status ELSE "loop"

Process(video_path, output_path, outcome) ==
  Turn(output_path,
       process_single_video(video_path, output_path, args, outcome))

\* one turn of the loop over video_files
ProcessVideo ==
  /\ pc = "loop"
  /\ i < Len(video_files)
  /\ \E outcome \in Outcomes(args.max_frames) :
       Process(video_files[i + 1],
               OutputPath(args.output, video_files[i + 1], Len(video_files)),
               outcome)
  /\ UNCHANGED <<args, input, listing, ffmpeg, REMBG_AVAILABLE, video_files>>

\* the loop is over: the summary, and main returns
Summary ==
  /\ pc = "loop"
  /\ i = Len(video_files)
  /\ pc' = "done"
  /\ UNCHANGED <<args, input, listing, ffmpeg, REMBG_AVAILABLE, video_files,
                 i, success_count, fail_count, assigned, dirs, probed,
                 extracted, canvases, written, last>>

Next == Startup \/ ProcessVideo \/ Summary

(***************************************************************************)
(* The runs checked.                                                       *)
(***************************************************************************)
Outputs ==
  {None, Some([base |-> "out", suffix |-> ""]),
   Some([base |-> "sheet", suffix |-> ".png"])}

Percents == {None, Some(0), Some(29), Some(50), Some(150)}

Reqs == {None} \cup {Some(k) : k \in (-1)..MaxReq} \cup {Some(100)}

Dims == ((1..MaxDim) \X (1..MaxDim)) \cup {<<640, 480>>, <<200, 100>>}

Columns == {None} \cup {Some(c) : c \in (-2)..MaxCols}

BatchFiles ==
  {[stem |-> s, suffix |-> x, width |-> 2, height |-> 2] :
     s \in {"a", "b"}, x \in {".MP4", ".avi", ".txt"}}

InitRun ==
  /\ pc = "start"
  /\ video_files = << >>
  /\ i = 0
  /\ success_count = 0
  /\ fail_count = 0
  /\ assigned = << >>
  /\ dirs = {}
  /\ probed = {}
  /\ extracted = {}
  /\ canvases = 0
  /\ written = << >>
  /\ last = NoCall

\* a directory of videos (or a path that does not exist), default layout
Init ==
  /\ input \in {"missing", "dir"}
  /\ listing \in {S \in SUBSET BatchFiles : Cardinality(S) <= MaxFiles}
  /\ input = "missing" => listing = {}
  /\ ffmpeg \in BOOLEAN
  /\ REMBG_AVAILABLE \in BOOLEAN
  /\ args \in [output : Outputs, percent : {None}, width : {None},
               height : {None}, columns : {None}, max_frames : {Some(2)},
               json : BOOLEAN, remove_bg : BOOLEAN]
  /\ InitRun

\* one video, every way of asking for a frame size
InitScale ==
  /\ input = "file"
  /\ listing \in {{[stem |-> "a", suffix |-> ".avi",
                    width |-> d[1], height |-> d[2]]} : d \in Dims}
  /\ ffmpeg = TRUE
  /\ REMBG_AVAILABLE = FALSE
  /\ args \in [output : {None}, percent : Percents, width : Reqs,
               height : Reqs, columns : {None}, max_frames : {Some(1)},
               json : {FALSE}, remove_bg : {FALSE}]
  /\ InitRun

\* one video, every frame count and every --columns
InitGrid ==
  /\ input = "file"
  /\ listing \in {{[stem |-> "a", suffix |-> ".avi",
                    width |-> d[1], height |-> d[2]]} :
                    d \in {<<2, 2>>, <<3, 2>>}}
  /\ ffmpeg = TRUE
  /\ REMBG_AVAILABLE = TRUE
  /\ args \in [output : {None, Some([base |-> "sheet", suffix |-> ".png"])},
               percent : {None}, width : {None, Some(2)},
               height : {None, Some(2)}, columns : Columns,
               max_frames : {None}, json : BOOLEAN, remove_bg : BOOLEAN]
  /\ InitRun

Spec == Init /\ [][Next]_vars

SpecScale == InitScale /\ [][Next]_vars

SpecGrid == InitGrid /\ [][Next]_vars

(***************************************************************************)
(* The properties checked.                                                 *)
(***************************************************************************)
\* the video the latest turn of the loop took
Cur == video_files[i]

Ended == pc \in {"done", "exit", "crash"}

\* v is an integer nearest to num/den (either one at a tie), den > 0
Nearest(v, num, den) == 2 * Abs(v * den - num) <= den

\* v is num/den cut toward zero; or, when den divides num, one short of it
CutToward0(v, num, den) ==
  /\ v * num >= 0
  /\ \/ Abs(v) = Abs(num) \div den
     \/ Abs(num) % den = 0 /\ Abs(v) = (Abs(num) \div den) - 1

\* the two rectangles share no pixel
Disjoint(r1, r2) ==
  \/ r1.x + r1.w <= r2.x
  \/ r2.x + r2.w <= r1.x
  \/ r1.y + r1.h <= r2.y
  \/ r2.y + r2.h <= r1.y

\* C1: in a batch over k >= 2 videos a failure of one video (the probe, the
\* decoder, no frames) stays with that video: when the run has ended every
\* video was taken and probed, and success_count + fail_count = k.
C1_FailureIsLocal ==
  (Ended /\ Len(video_files) >= 2 /\ last.status # "crash")
    => /\ i = Len(video_files)
       /\ probed = 1..Len(video_files)
       /\ success_count + fail_count = Len(video_files)

\* C2: when create_spritesheet has composed n >= 1 frames of a positive
\* target size, frame k lies at x = (k mod cols) * target_width,
\* y = (k div cols) * target_height, no two rectangles overlap and every
\* rectangle lies inside the canvas of cols*target_width by
\* rows*target_height.
C2_RowMajorTiling ==
  (last.metadata # None /\ last.layout[1].target_width > 0
                        /\ last.layout[1].target_height > 0)
    => LET rects == last.metadata[1].frames
           lay   == last.layout[1]
       IN  /\ Len(rects) >= 1
           /\ \A k \in 1..Len(rects) :
                /\ rects[k].x = ((k - 1) % lay.cols) * lay.target_width
                /\ rects[k].y = ((k - 1) \div lay.cols) * lay.target_height
                /\ 0 <= rects[k].x
                /\ 0 <= rects[k].y
                /\ rects[k].x + rects[k].w <= lay.cols * lay.target_width
                /\ rects[k].y + rects[k].h <= lay.rows * lay.target_height
                /\ last.canvas = Some(<<lay.cols * lay.target_width,
                                        lay.rows * lay.target_height>>)
           /\ \A j, k \in 1..Len(rects) :
                j # k => Disjoint(rects[j], rects[k])

\* seven frames composed on a 3 x 3 grid of 2 x 2 frames: the last row is
\* not full
C2_Witness ==
  /\ last.metadata # None
  /\ Len(last.metadata[1].frames) = 7
  /\ last.layout[1].cols = 3
  /\ last.layout[1].target_width = 2
  /\ last.layout[1].target_height = 2

\* C3: with no --columns, for every n >= 1 the grid has cols = ceil(sqrt(n))
\* (the least c with c*c >= n) and rows = ceil(n/cols), and
\* cols*(rows-1) < n; n = 7 gives 3 x 3.
C3_AutoGrid ==
  (last.layout # None /\ args.columns = None)
    => LET lay == last.layout[1]
           n   == lay.num_frames
       IN  /\ n >= 1
           /\ n = last.frames
           /\ lay.cols >= 1
           /\ lay.cols * lay.cols >= n
           /\ (lay.cols - 1) * (lay.cols - 1) < n
           /\ lay.rows * lay.cols >= n
           /\ lay.cols * (lay.rows - 1) < n
           /\ (n = 7 => lay.cols = 3 /\ lay.rows = 3)

\* seven frames laid out with no --columns
C3_Witness ==
  /\ last.layout # None
  /\ args.columns = None
  /\ last.layout[1].num_frames = 7
  /\ last.status = "True"

\* what C4 says of a layout made with --columns c
ExplicitGrid(lay, c) ==
  /\ lay.cols = c
  /\ lay.cols >= 1
  /\ lay.rows >= 1
  /\ lay.rows * c >= lay.num_frames
  /\ (lay.rows - 1) * c < lay.num_frames
  /\ lay.cols * lay.rows >= lay.num_frames
  /\ lay.cols * lay.rows - lay.num_frames < lay.cols

C5_RoundedToNearest ==
  /\ (args.percent # None /\ last.extract # "not_run")
       => /\ Nearest(last.frame_width[1], Cur.width * args.percent[1], 100)
          /\ Nearest(last.frame_height[1], Cur.height * args.percent[1], 100)
  /\ (last.layout # None /\ args.percent = None /\ Truthy(args.width)
        /\ args.height = None)
       => Nearest(last.layout[1].target_height,
                  Cur.height * args.width[1], Cur.width)
  /\ (last.layout # None /\ args.percent = None /\ Truthy(args.height)
        /\ args.width = None)
       => Nearest(last.layout[1].target_width,
                  Cur.width * args.height[1], Cur.height)

\* C5, amended: every scaled dimension is the scaled value cut toward zero
\* (int() of the double product), not rounded: the exact quotient without
\* its fraction, or one less in magnitude when the quotient is an integer
\* that the double product falls short of.  50 percent of 640 x 480 is
\* 320 x 240 and --width 100 on 200 x 100 gives the height 50.
C5_CutTowardZero ==
  /\ (args.percent # None /\ last.extract # "not_run")
       => /\ CutToward0(last.frame_width[1],
                        Cur.width * args.percent[1], 100)
          /\ CutToward0(last.frame_height[1],
                        Cur.height * args.percent[1], 100)
          /\ (args.percent[1] = 50 /\ Cur.width = 640 /\ Cur.height = 480)
               => /\ last.frame_width = Some(320)
                  /\ last.frame_height = Some(240)
  /\ (last.layout # None /\ args.percent = None /\ Truthy(args.width)
        /\ args.height = None)
       => /\ last.layout[1].target_width = args.width[1]
          /\ CutToward0(last.layout[1].target_height,
                        Cur.height * args.width[1], Cur.width)
          /\ (args.width[1] = 100 /\ Cur.width = 200 /\ Cur.height = 100)
               => last.layout[1].target_height = 50
  /\ (last.layout # None /\ args.percent = None /\ Truthy(args.height)
        /\ args.width = None)
       => /\ last.layout[1].target_height = args.height[1]
          /\ CutToward0(last.layout[1].target_width,
                        Cur.width * args.height[1], Cur.height)

\* --width 4 on a 3 x 2 video: the height 8/3 becomes 2
C5_Witness ==
  /\ last.status = "True"
  /\ args.percent = None
  /\ args.width = Some(4)
  /\ args.height = None
  /\ Cur.width = 3
  /\ Cur.height = 2
  /\ last.layout[1].target_height = 2

\* a frame size of zero was asked for or computed
ZeroSize ==
  \/ last.frame_width = Some(0)
  \/ last.frame_height = Some(0)
  \/ /\ last.layout # None
     /\ \/ last.layout[1].target_width = 0
        \/ last.layout[1].target_height = 0

\* C6: whenever --percent, --width or --height makes a target dimension
\* zero, the video fails and nothing is composed or written: no canvas, no
\* frame pasted, no file; the zero is never replaced by another size.
C6_ZeroSizeRejected ==
  (last.frames >= 1 /\ ZeroSize)
    => /\ last.status # "True"
       /\ last.canvas = None
       /\ last.pasted = 0
       /\ last.files = << >>

\* C7: when the extraction yields no frame, the video fails before any
\* layout or composition: no layout, no canvas, nothing pasted, no sheet and
\* no metadata written, and the video is counted as failed.
C7_EmptyFailsEarly ==
  [][(i' = i + 1 /\ last'.extract = "ok" /\ last'.frames = 0)
       => /\ last'.status = "False"
          /\ last'.layout = None
          /\ last'.canvas = None
          /\ last'.pasted = 0
          /\ last'.metadata = None
          /\ last'.files = << >>
          /\ canvases' = canvases
          /\ written' = written
          /\ fail_count' = fail_count + 1
          /\ success_count' = success_count]_vars

\* a video whose extraction gave no frame, counted as failed
C7_Witness ==
  /\ last.extract = "ok"
  /\ last.frames = 0
  /\ last.status = "False"
  /\ fail_count >= 1

\* C8: when ffmpeg is missing, or --remove-bg is asked for without rembg,
\* main stops before any work: no video is probed, no frame extracted, no
\* directory or file made, no canvas allocated.
C8_MissingCapabilityStopsFirst ==
  (pc # "start" /\ (~ffmpeg \/ (args.remove_bg /\ ~REMBG_AVAILABLE)))
    => /\ pc = "exit"
       /\ video_files = << >>
       /\ i = 0
       /\ probed = {}
       /\ extracted = {}
       /\ dirs = {}
       /\ written = << >>
       /\ canvases = 0
       /\ last = NoCall

\* a directory with two videos, no ffmpeg: main has stopped
C8_Witness ==
  /\ pc = "exit"
  /\ ~ffmpeg
  /\ input = "dir"
  /\ Len(find_video_files(listing)) >= 2

\* C9: the metadata returned for n >= 1 composed frames has exactly n
\* entries in source order, entry k has index k and the target size,
\* meta.totalFrames = n, and an unfilled cell has no entry.
C9_MetadataEntries ==
  last.metadata # None
    => LET md  == last.metadata[1]
           lay == last.layout[1]
       IN  /\ last.frames >= 1
           /\ Len(md.frames) = last.frames
           /\ md.meta.totalFrames = last.frames
           /\ last.pasted = last.frames
           /\ \A k \in 1..Len(md.frames) :
                /\ md.frames[k].index = k - 1
                /\ md.frames[k].w = lay.target_width
                /\ md.frames[k].h = lay.target_height
           /\ md.meta.frameSize = [w |-> lay.target_width,
                                   h |-> lay.target_height]

\* five frames composed with --columns 3: six cells, five entries
C9_Witness ==
  /\ last.metadata # None
  /\ last.frames = 5
  /\ last.layout[1].cols = 3
  /\ last.layout[1].rows = 2
  /\ Len(last.metadata[1].frames) = 5

\* C10: in one batch run no two videos get the same output path, whatever
\* --output is, so no sheet is overwritten by a later video of the run.
C10_DistinctOutputPaths ==
  /\ \A j, k \in 1..Len(assigned) : j # k => assigned[j] # assigned[k]
  /\ \A j, k \in 1..Len(written) :
       (written[j].by # written[k].by) => written[j].path # written[k].path

=============================================================================
